---- MODULE Spec2Model ----
(***************************************************************************)
(* Model of the yoda scheduler plugin (pkg/yoda/scheduler.go): the Filter, *)
(* PostFilter, Score and NormalizeScore extension points.                  *)
(***************************************************************************)
EXTENDS Integers, Sequences, FiniteSets, TLC

(* ------------------------------------------------------------------ *)
(* Bounds                                                              *)
(* ------------------------------------------------------------------ *)

\* Width of the machine word that stands for Go's int64 (scaled down so the
\* model checker's integers can hold every intermediate product).
WordBits == 16

\* Longest framework.NodeScoreList handed to NormalizeScore.
MaxScores == 3

\* Number of NormalizeScore invocations on one list.
MaxNormalizeCalls == 2

\* Most device entries in one machine's inventory.
MaxCards == 2

(* ------------------------------------------------------------------ *)
(* Machine integers                                                    *)
(* ------------------------------------------------------------------ *)

Modulus == 2 ^ WordBits

MaxInt64 == (Modulus \div 2) - 1

MinInt64 == -(Modulus \div 2)

\* Two's-complement wrap of a mathematical integer into the signed word.
Wrap(x) ==
    LET m == x % Modulus
    IN  IF m > MaxInt64 THEN m - Modulus ELSE m

Abs(x) == IF x < 0 THEN -x ELSE x

\* Go's integer division: truncates toward zero; MinInt64 / -1 wraps.
GoDiv(a, b) ==
    LET q == Abs(a) \div Abs(b)
    IN  Wrap(IF (a < 0) = (b < 0) THEN q ELSE -q)

MaxNodeScore == 100

(* ------------------------------------------------------------------ *)
(* Status values of the scheduling framework                           *)
(* ------------------------------------------------------------------ *)

Success == "Success"

Error == "Error"

Unschedulable == "Unschedulable"

NewStatus(code, reasons) == [code |-> code, reasons |-> reasons]

\* Outcome of a handler that has not been invoked yet.
NotCalled == [status |-> [code |-> "NotCalled", reasons |-> <<>>]]

\* Outcome of a handler that ended in a Go runtime panic.
Panic(what) == [code |-> "panic", reasons |-> <<what>>]

(* ------------------------------------------------------------------ *)
(* NormalizeScore                                                      *)
(* ------------------------------------------------------------------ *)

\* First loop of NormalizeScore over scores[i..], acc = [highest, lowest].
RECURSIVE ScanScores(_, _, _)
ScanScores(scores, i, acc) ==
    IF i > Len(scores) THEN acc
    ELSE LET s  == scores[i].Score
             lo == IF s < acc.lowest THEN s ELSE acc.lowest
             hi == IF s > acc.highest THEN s ELSE acc.highest
         IN  ScanScores(scores, i + 1, [highest |-> hi, lowest |-> lo])

\* The var block of NormalizeScore: highest starts at 0, lowest at scores[0].
InitialHighest == 0

InitialLowest(scores) == scores[1].Score

\* highest and lowest as they stand when the rewriting loop starts.
ScoreRange(scores) ==
    LET acc == ScanScores(scores, 1,
                          [highest |-> InitialHighest,
                           lowest |-> InitialLowest(scores)])
    IN  IF acc.highest = acc.lowest
        THEN [highest |-> acc.highest, lowest |-> Wrap(acc.lowest - 1)]
        ELSE acc

\* One rewritten score, every operation in the signed machine word.
Rescale(score, lowest, highest) ==
    GoDiv(Wrap(Wrap(score - lowest) * MaxNodeScore), Wrap(highest - lowest))

\* The whole function: the list after the call and the returned status.
NormalizeScore(scores) ==
    IF Len(scores) = 0
    THEN [scores |-> scores, status |-> Panic("index out of range [0] with length 0")]
    ELSE LET r == ScoreRange(scores)
         IN  [scores |-> [i \in 1..Len(scores) |->
                            [Name |-> scores[i].Name,
                             Score |-> Rescale(scores[i].Score, r.lowest, r.highest)]],
              status |-> NewStatus(Success, <<"">>)]

(* ------------------------------------------------------------------ *)
(* Inputs of one scheduling cycle                                      *)
(* ------------------------------------------------------------------ *)

\* Candidate machines (v1.Node names).
Nodes == {"n1", "n2"}

\* Device entries a machine can advertise in its Scv.
Cards ==
    { [count |-> 2, memory |-> 8,  clock |-> 4],
      [count |-> 0, memory |-> 16, clock |-> 8] }

\* Requests a pod can carry.
Pods ==
    { [number |-> 1, memory |-> 4,  clock |-> 2],
      [number |-> 0, memory |-> 16, clock |-> 1],
      [number |-> 2, memory |-> 2,  clock |-> 8],
      [number |-> 1, memory |-> 16, clock |-> 8] }

\* scv.Scv objects: the ordered device entries of one machine.
Scvs == UNION { [1..k -> Cards] : k \in 0..MaxCards }

\* Contents of the inventory store: an Scv for some of the machines.
Stores == UNION { [S -> Scvs] : S \in SUBSET Nodes }

\* Lists handed to NormalizeScore: one NodeScore per position.
ScoreNames == [i \in 1..(MaxScores + 1) |-> i]

ScoreValues ==
    { MinInt64, -10, -5, 0, 10, 50, MaxNodeScore,
      MaxInt64 \div MaxNodeScore + 1, MaxInt64 \div 2 + 1, MaxInt64 }

NodeScoreLists ==
    UNION { { [i \in 1..k |-> [Name |-> ScoreNames[i], Score |-> v[i]]] :
                v \in [1..k -> ScoreValues] } : k \in 0..MaxScores }

(* ------------------------------------------------------------------ *)
(* State                                                               *)
(* ------------------------------------------------------------------ *)

VARIABLES
    pod,         \* the pod being scheduled in this cycle
    store,       \* the inventory store: machine name -> Scv
    cycleState,  \* framework.CycleState of this cycle
    filterRes,   \* what the last Filter call returned, and for which machine
    postRes,     \* what the last PostFilter call returned
    scoreRes,    \* what the last Score call returned, and for which machine
    scores,      \* the NodeScoreList NormalizeScore mutates in place
    normalized   \* the NormalizeScore calls made on scores, oldest first

vars == <<pod, store, cycleState, filterRes, postRes, scoreRes, scores, normalized>>

cycleVars == <<pod, store, cycleState, filterRes, postRes, scoreRes>>

normVars == <<scores, normalized>>

\* CycleState with nothing written to it.
EmptyCycleState == [k \in {} |-> 0]

(* ------------------------------------------------------------------ *)
(* Collaborators: inventory store client and node snapshot             *)
(* ------------------------------------------------------------------ *)

\* scvClient.Get: the Scv named after the machine, or an error.
ScvGet(st, name, up) ==
    IF ~up THEN [err |-> "unavailable", scv |-> <<>>]
    ELSE IF name \notin DOMAIN st THEN [err |-> "not found", scv |-> <<>>]
    ELSE [err |-> "", scv |-> st[name]]

\* scvClient.List: every Scv of the cluster, or an error.
ScvList(st, up) ==
    IF ~up THEN [err |-> "unavailable", items |-> {}]
    ELSE [err |-> "", items |-> { st[n] : n \in DOMAIN st }]

\* handle.SnapshotSharedLister().NodeInfos().Get
NodeInfoGet(name, inSnapshot) ==
    IF inSnapshot THEN [err |-> "", nodeInfo |-> name]
    ELSE [err |-> "nodeinfo not found", nodeInfo |-> ""]

(* ------------------------------------------------------------------ *)
(* Packages filter, collection and score                               *)
(* ------------------------------------------------------------------ *)

\* filter.PodFitsNumber: the first device entry with enough free units.
PodFitsNumber(p, scv) ==
    LET fit == { i \in 1..Len(scv) : scv[i].count >= p.number }
    IN  IF fit = {} THEN [ok |-> FALSE, number |-> 0]
        ELSE [ok |-> TRUE, number |-> CHOOSE i \in fit : \A j \in fit : i <= j]

\* filter.PodFitsMemory on the matched device entry.
PodFitsMemory(number, p, scv) == scv[number].memory >= p.memory

\* filter.PodFitsClock on the matched device entry.
PodFitsClock(number, p, scv) == scv[number].clock >= p.clock

SetMax(S) == IF S = {} THEN 0 ELSE CHOOSE x \in S : \A y \in S : y <= x

\* The largest value of each dimension over a set of Scvs.
MaxValues(items) ==
    [count  |-> SetMax({ s[i].count  : <<s, i>> \in { <<t, j>> \in items \X (1..MaxCards + 1) : j <= Len(t) } }),
     memory |-> SetMax({ s[i].memory : <<s, i>> \in { <<t, j>> \in items \X (1..MaxCards + 1) : j <= Len(t) } }),
     clock  |-> SetMax({ s[i].clock  : <<s, i>> \in { <<t, j>> \in items \X (1..MaxCards + 1) : j <= Len(t) } })]

\* collection.CollectMaxValues: overwrite the maxima in CycleState, or signal
\* "no candidates" and write nothing when the list is empty.
CollectMaxValues(state, p, items) ==
    IF items = {}
    THEN [state |-> state, status |-> NewStatus(Error, <<"no candidates">>)]
    ELSE [state |-> [k \in {"Max"} |-> MaxValues(items)],
          status |-> NewStatus(Success, <<"">>)]

Ratio(v, max) == IF max = 0 THEN 0 ELSE (v * MaxNodeScore) \div max

\* score.CalculateScore: the sum of the three ratios against the cycle maxima;
\* an error when CycleState holds no maxima.
CalculateScore(scv, state, p, nodeInfo) ==
    IF "Max" \notin DOMAIN state
    THEN [score |-> 0, err |-> "no Max in CycleState"]
    ELSE LET own == MaxValues({scv})
             max == state["Max"]
         IN  [score |-> Ratio(own.count, max.count) + Ratio(own.memory, max.memory)
                          + Ratio(own.clock, max.clock),
              err |-> ""]

\* filter.Uint64ToInt64
Uint64ToInt64(u) == Wrap(u)

(* ------------------------------------------------------------------ *)
(* The plugin's handlers                                                *)
(* ------------------------------------------------------------------ *)

\* The three fitness checks taken together on one Scv.
AllChecksPass(p, scv) ==
    LET fits == PodFitsNumber(p, scv)
    IN  /\ fits.ok
        /\ PodFitsMemory(fits.number, p, scv)
        /\ PodFitsClock(fits.number, p, scv)

\* Filter with the clock check left out of the final test.
FilterIgnoringClock(p, name, st, up) ==
    LET get == ScvGet(st, name, up)
    IN  IF get.err # ""
        THEN [status |-> NewStatus(Unschedulable, <<"Node:", name, " ", get.err>>),
              node |-> name, err |-> get.err, checks |-> {},
              calls |-> <<"scvClient.Get">>]
        ELSE LET fits == PodFitsNumber(p, get.scv)
             IN  IF fits.ok
                 THEN [status |-> IF PodFitsMemory(fits.number, p, get.scv)
                                  THEN NewStatus(Success, <<"">>)
                                  ELSE NewStatus(Unschedulable, <<"Node:", name>>),
                       node |-> name, err |-> "",
                       checks |-> {"PodFitsNumber", "PodFitsMemory"},
                       calls |-> <<"scvClient.Get">>]
                 ELSE [status |-> NewStatus(Unschedulable, <<"Node:", name>>),
                       node |-> name, err |-> "", checks |-> {"PodFitsNumber"},
                       calls |-> <<"scvClient.Get">>]

\* Filter reporting a failed lookup with the message of an unfit machine.
FilterDroppingLookupError(p, name, st, up) ==
    LET get == ScvGet(st, name, up)
    IN  IF get.err # ""
        THEN [status |-> NewStatus(Unschedulable, <<"Node:", name>>),
              node |-> name, err |-> get.err, checks |-> {},
              calls |-> <<"scvClient.Get">>]
        ELSE [status |-> IF AllChecksPass(p, get.scv)
                         THEN NewStatus(Success, <<"">>)
                         ELSE NewStatus(Unschedulable, <<"Node:", name>>),
              node |-> name, err |-> "",
              checks |-> IF PodFitsNumber(p, get.scv).ok
                         THEN {"PodFitsNumber", "PodFitsMemory", "PodFitsClock"}
                         ELSE {"PodFitsNumber"},
              calls |-> <<"scvClient.Get">>]

\* Yoda.Filter for the machine `name`; `up` says whether the store answers.
\* checks: the fitness checks the call ran; calls: the lookups it made.
Filter(p, name, st, up) ==
    LET get == ScvGet(st, name, up)
    IN  IF get.err # ""
        THEN [status |-> NewStatus(Unschedulable, <<"Node:", name, " ", get.err>>),
              node |-> name, err |-> get.err, checks |-> {},
              calls |-> <<"scvClient.Get">>]
        ELSE LET fits == PodFitsNumber(p, get.scv)
             IN  IF fits.ok
                 THEN LET isFitsMemory == PodFitsMemory(fits.number, p, get.scv)
                          isFitsClock  == PodFitsClock(fits.number, p, get.scv)
                      IN  [status |-> IF isFitsMemory /\ isFitsClock
                                      THEN NewStatus(Success, <<"">>)
                                      ELSE NewStatus(Unschedulable, <<"Node:", name>>),
                           node |-> name, err |-> "",
                           checks |-> {"PodFitsNumber", "PodFitsMemory", "PodFitsClock"},
                           calls |-> <<"scvClient.Get">>]
                 ELSE [status |-> NewStatus(Unschedulable, <<"Node:", name>>),
                       node |-> name, err |-> "", checks |-> {"PodFitsNumber"},
                       calls |-> <<"scvClient.Get">>]

\* PostFilter answering Success when the listing failed.
PostFilterSwallowingListError(state, p, st, up) ==
    LET list == ScvList(st, up)
        c    == CollectMaxValues(state, p, list.items)
    IN  IF list.err # ""
        THEN [state |-> state, status |-> NewStatus(Success, <<"">>),
              err |-> list.err, collected |-> FALSE, calls |-> <<"scvClient.List">>]
        ELSE [state |-> c.state, status |-> c.status,
              err |-> "", collected |-> TRUE, calls |-> <<"scvClient.List">>]

\* Yoda.PostFilter: list the cluster's Scvs, then run the aggregator.
PostFilter(state, p, st, up) ==
    LET list == ScvList(st, up)
    IN  IF list.err # ""
        THEN [state |-> state, status |-> NewStatus(Error, <<list.err>>),
              err |-> list.err, collected |-> FALSE, calls |-> <<"scvClient.List">>]
        ELSE LET c == CollectMaxValues(state, p, list.items)
             IN  [state |-> c.state, status |-> c.status,
                  err |-> "", collected |-> TRUE, calls |-> <<"scvClient.List">>]

\* Score answering Success with score 0 when CalculateScore fails.
ScoreDefaultingOnError(state, p, name, st, inSnapshot, up) ==
    LET info == NodeInfoGet(name, inSnapshot)
        get  == ScvGet(st, name, up)
        c    == CalculateScore(get.scv, state, p, info.nodeInfo)
    IN  IF info.err # ""
        THEN [score |-> 0,
              status |-> NewStatus(Error, <<"getting node ", name, " from Snapshot: ", info.err>>),
              node |-> name, err |-> info.err, calculated |-> FALSE,
              calls |-> <<"NodeInfos.Get">>]
        ELSE IF get.err # ""
        THEN [score |-> 0,
              status |-> NewStatus(Error, <<"Score Node Error: ", get.err>>),
              node |-> name, err |-> get.err, calculated |-> FALSE,
              calls |-> <<"NodeInfos.Get", "scvClient.Get">>]
        ELSE [score |-> Uint64ToInt64(c.score),
              status |-> NewStatus(Success, <<"">>),
              node |-> name, err |-> "", calculated |-> TRUE,
              calls |-> <<"NodeInfos.Get", "scvClient.Get">>]

\* Yoda.Score for the machine `name`; `inSnapshot` says whether the node
\* snapshot knows it, `up` whether the store answers.
Score(state, p, name, st, inSnapshot, up) ==
    LET info == NodeInfoGet(name, inSnapshot)
        get  == ScvGet(st, name, up)
    IN  IF info.err # ""
        THEN [score |-> 0,
              status |-> NewStatus(Error, <<"getting node ", name, " from Snapshot: ", info.err>>),
              node |-> name, err |-> info.err, calculated |-> FALSE,
              calls |-> <<"NodeInfos.Get">>]
        ELSE IF get.err # ""
        THEN [score |-> 0,
              status |-> NewStatus(Error, <<"Score Node Error: ", get.err>>),
              node |-> name, err |-> get.err, calculated |-> FALSE,
              calls |-> <<"NodeInfos.Get", "scvClient.Get">>]
        ELSE LET c == CalculateScore(get.scv, state, p, info.nodeInfo)
             IN  IF c.err # ""
                 THEN [score |-> 0,
                       status |-> NewStatus(Error, <<"Score Node Error: ", c.err>>),
                       node |-> name, err |-> "", calculated |-> TRUE,
                       calls |-> <<"NodeInfos.Get", "scvClient.Get">>]
                 ELSE [score |-> Uint64ToInt64(c.score),
                       status |-> NewStatus(Success, <<"">>),
                       node |-> name, err |-> "", calculated |-> TRUE,
                       calls |-> <<"NodeInfos.Get", "scvClient.Get">>]

(* ------------------------------------------------------------------ *)
(* Actions: the framework invoking the handlers                         *)
(* ------------------------------------------------------------------ *)

\* The plugin as New leaves it, at the start of a pod's scheduling cycle.
Init ==
    /\ pod \in Pods
    /\ store \in Stores
    /\ cycleState = EmptyCycleState
    /\ filterRes = NotCalled
    /\ postRes = NotCalled
    /\ scoreRes = NotCalled
    /\ scores = <<>>
    /\ normalized = <<>>

CallFilter(n) ==
    /\ \E up \in BOOLEAN :
         filterRes' = Filter(pod, n, store, up)
    /\ UNCHANGED <<pod, store, cycleState, postRes, scoreRes, normVars>>

CallPostFilter ==
    /\ \E up \in BOOLEAN :
         LET r == PostFilter(cycleState, pod, store, up)
         IN  /\ cycleState' = r.state
             /\ postRes' = [status |-> r.status, err |-> r.err, before |-> cycleState,
                            collected |-> r.collected, calls |-> r.calls]
    /\ UNCHANGED <<pod, store, filterRes, scoreRes, normVars>>

CallScore(n) ==
    /\ \E inSnapshot \in BOOLEAN, up \in BOOLEAN :
         scoreRes' = Score(cycleState, pod, n, store, inSnapshot, up)
    /\ UNCHANGED <<pod, store, cycleState, filterRes, postRes, normVars>>

Next ==
    \/ \E n \in Nodes : CallFilter(n)
    \/ CallPostFilter
    \/ \E n \in Nodes : CallScore(n)

Spec == Init /\ [][Next]_vars

\* NormalizeScore taken on its own, over every list of the input set.
InitNormalize ==
    /\ pod = CHOOSE p \in Pods : TRUE
    /\ store = EmptyCycleState
    /\ cycleState = EmptyCycleState
    /\ filterRes = NotCalled
    /\ postRes = NotCalled
    /\ scoreRes = NotCalled
    /\ scores \in NodeScoreLists
    /\ normalized = <<>>

\* One call of NormalizeScore on the list; a call that panicked ends the run.
CallNormalizeScore ==
    /\ Len(normalized) < MaxNormalizeCalls
    /\ normalized # <<>> => normalized[Len(normalized)].status.code = Success
    /\ LET r == NormalizeScore(scores)
       IN  /\ scores' = r.scores
           /\ normalized' = Append(normalized,
                                   [before |-> scores, after |-> r.scores,
                                    status |-> r.status])
    /\ UNCHANGED cycleVars

NextNormalize == CallNormalizeScore

SpecNormalize == InitNormalize /\ [][NextNormalize]_vars

(* ------------------------------------------------------------------ *)
(* Properties of Filter, PostFilter and Score (under Spec)              *)
(* ------------------------------------------------------------------ *)

FilterCalled == filterRes.status.code # "NotCalled"

PostFilterCalled == postRes.status.code # "NotCalled"

ScoreCalled == scoreRes.status.code # "NotCalled"

\* C1: when the inventory lookup succeeded, Filter answers Success exactly when
\* the device-count check passes and the memory and clock checks both pass on
\* the matched device; a failed device-count check always gives Unschedulable.
C1_FilterSuccessIffAllChecksPass ==
    (FilterCalled /\ filterRes.err = "") =>
        LET scv == store[filterRes.node]
        IN  /\ filterRes.status.code \in {Success, Unschedulable}
            /\ (filterRes.status.code = Success) <=> AllChecksPass(pod, scv)
            /\ ~PodFitsNumber(pod, scv).ok => filterRes.status.code = Unschedulable

\* Filter rejected a machine on the device count alone although one of its
\* device entries has the memory and the clock the pod asks for.
C1_Witness ==
    /\ FilterCalled /\ filterRes.err = ""
    /\ filterRes.status.code = Unschedulable
    /\ ~PodFitsNumber(pod, store[filterRes.node]).ok
    /\ \E i \in 1..Len(store[filterRes.node]) :
         /\ PodFitsMemory(i, pod, store[filterRes.node])
         /\ PodFitsClock(i, pod, store[filterRes.node])

\* C6: a failed inventory lookup makes Filter answer Unschedulable, not Error,
\* with no fitness check run, and the status it returns differs from every
\* status Filter returns for the same machine when the lookup succeeds.
C6_LookupFailureIsUnschedulableAndDistinct ==
    (FilterCalled /\ filterRes.err # "") =>
        /\ filterRes.status.code = Unschedulable
        /\ filterRes.checks = {}
        /\ \A scv \in Scvs :
             Filter(pod, filterRes.node, [n \in {filterRes.node} |-> scv], TRUE).status
                 # filterRes.status

\* Filter was called for a machine whose lookup failed.
C6_Witness ==
    /\ FilterCalled /\ filterRes.err # ""
    /\ filterRes.status.code = Unschedulable

\* C7: Score called while CycleState holds no maxima returns Error with score 0;
\* Score returns Success only after PostFilter has populated CycleState.
C7_ScoreNeedsCollectedMaxima ==
    ScoreCalled =>
        /\ "Max" \notin DOMAIN cycleState =>
             scoreRes.status.code = Error /\ scoreRes.score = 0
        /\ scoreRes.status.code = Success =>
             PostFilterCalled /\ "Max" \in DOMAIN cycleState

\* PostFilter ran and failed, then Score reached CalculateScore and failed on
\* the missing maxima.
C7_Witness ==
    /\ ScoreCalled /\ scoreRes.calculated
    /\ scoreRes.status.code = Error
    /\ PostFilterCalled /\ postRes.status.code = Error
    /\ "Max" \notin DOMAIN cycleState

\* C8: a failed listing in PostFilter and a failed snapshot or inventory lookup
\* in Score come back as Error after one attempt of the failing call; after a
\* failed listing the aggregator has not run and CycleState is as it was.
C8_StoreFailuresAreErrorsWithoutRetry ==
    /\ (PostFilterCalled /\ postRes.err # "") =>
         /\ postRes.status.code = Error
         /\ postRes.calls = <<"scvClient.List">>
         /\ ~postRes.collected
         /\ cycleState = postRes.before
    /\ (ScoreCalled /\ scoreRes.err # "") =>
         /\ scoreRes.status.code = Error
         /\ scoreRes.score = 0
         /\ ~scoreRes.calculated
         /\ \A i, j \in 1..Len(scoreRes.calls) :
              scoreRes.calls[i] = scoreRes.calls[j] => i = j

\* The listing failed in PostFilter with maxima already in CycleState, and the
\* inventory lookup failed in Score.
C8_Witness ==
    /\ PostFilterCalled /\ postRes.err # ""
    /\ "Max" \in DOMAIN cycleState
    /\ ScoreCalled /\ scoreRes.err # ""
    /\ Len(scoreRes.calls) = 2

(* ------------------------------------------------------------------ *)
(* Properties of NormalizeScore (under SpecNormalize)                   *)
(* ------------------------------------------------------------------ *)

ScoresOf(list) == { list[i].Score : i \in 1..Len(list) }

MinScore(list) == CHOOSE x \in ScoresOf(list) : \A y \in ScoresOf(list) : x <= y

MaxScore(list) == CHOOSE x \in ScoresOf(list) : \A y \in ScoresOf(list) : y <= x

AllEqual(list) == Cardinality(ScoresOf(list)) = 1

\* C2: on a non-empty list whose scores are not all equal, every score becomes
\* (score - min) * 100 / (max - min); the minimum maps to 0, the maximum to 100.
C2_MinMaxRescaling ==
    \A k \in 1..Len(normalized) :
        LET b == normalized[k].before
            a == normalized[k].after
        IN  (Len(b) > 0 /\ ~AllEqual(b)) =>
                \A i \in 1..Len(b) :
                    /\ a[i].Score = ((b[i].Score - MinScore(b)) * MaxNodeScore)
                                        \div (MaxScore(b) - MinScore(b))
                    /\ b[i].Score = MinScore(b) => a[i].Score = 0
                    /\ b[i].Score = MaxScore(b) => a[i].Score = MaxNodeScore

\* C3: on a non-empty list whose scores are all equal, every score becomes 100
\* and the call returns Success.
C3_UniformScoresBecomeMax ==
    \A k \in 1..Len(normalized) :
        LET b == normalized[k].before
            a == normalized[k].after
        IN  (Len(b) > 0 /\ AllEqual(b)) =>
                /\ normalized[k].status.code = Success
                /\ \A i \in 1..Len(b) : a[i].Score = MaxNodeScore

\* C4: on a non-empty list, every score after the call lies in 0..100.
C4_ScoresInOutputRange ==
    \A k \in 1..Len(normalized) :
        LET a == normalized[k].after
        IN  Len(normalized[k].before) > 0 =>
                \A i \in 1..Len(a) : a[i].Score \in 0..MaxNodeScore

\* C5: on an empty list the call returns normally and leaves the list empty.
C5_EmptyListIsNoOp ==
    \A k \in 1..Len(normalized) :
        Len(normalized[k].before) = 0 =>
            /\ normalized[k].status.code = Success
            /\ normalized[k].after = <<>>

\* C9: on a non-empty list the call keeps the order of any two scores, the
\* machine names and the list order.
C9_RankingPreserved ==
    \A k \in 1..Len(normalized) :
        LET b == normalized[k].before
            a == normalized[k].after
        IN  Len(b) > 0 =>
                /\ Len(a) = Len(b)
                /\ \A i \in 1..Len(b) : a[i].Name = b[i].Name
                /\ \A i, j \in 1..Len(b) :
                     b[i].Score <= b[j].Score => a[i].Score <= a[j].Score

\* C10: on a non-empty list of non-negative scores, a second call leaves the
\* result of the first call as it is.
C10_SecondCallChangesNothing ==
    (/\ Len(normalized) = 2
     /\ Len(normalized[1].before) > 0
     /\ \A v \in ScoresOf(normalized[1].before) : v >= 0) =>
        normalized[2].after = normalized[1].after

====
